---- MODULE Spec2Model ----
(***************************************************************************)
(* workpluck: an in-memory work-distribution broker (src/main.go, the      *)
(* version with task leases, lines 169-449).  Two maps, taskStore and      *)
(* resultStore, guarded by one mutex, are served by five HTTP handlers.    *)
(*                                                                         *)
(* Every request is a process.  A handler whose critical section reads     *)
(* and writes the stores in one go is one step, taken when the mutex is    *)
(* free.  handleRetrieveTask is split where another request could come in  *)
(* between if the mutex did not stop it: the request waits for the mutex,  *)
(* scans taskStore under it, and then writes the task it matched.          *)
(*                                                                         *)
(* Time is counted in whole hours (time.Hour is 1) and read from the       *)
(* monotonic clock `now`.  Inputs and outputs are the interface{} values   *)
(* that json.Decode handed to the handler; the stores keep them as they    *)
(* are and json.Encode writes them back.                                   *)
(***************************************************************************)
EXTENDS Integers, FiniteSets, Sequences, TLC

\* ---- bounds of the model ------------------------------------------------
MaxTasks == 2        \* uuid.New() is called at most this many times
MaxTime == 2         \* the clock stops at this hour

\* ---- program constants ---------------------------------------------------
Hour == 1            \* time.Hour, the lease TTL, in clock units

StatusOK == 200
StatusCreated == 201
StatusAccepted == 202
StatusNoContent == 204
StatusBadRequest == 400
StatusNotFound == 404

\* ---- value sets ------------------------------------------------------------
Procs == {"c1", "c2"}                  \* requests served concurrently
NoProc == "free"                       \* storeMutex when nobody holds it

UUIDPool == <<"u1", "u2", "u3", "u4">>
UUIDs == {UUIDPool[i] : i \in 1..MaxTasks}
Topics == {"", "a", "b"}               \* "" is a missing topic
Inputs == {"nil", "x"}                 \* "nil" is an absent input
\* The topic and input of the bodies posted to /task.
TaskBodies == {[Topic |-> "", Input |-> "x"], [Topic |-> "a", Input |-> "nil"],
               [Topic |-> "b", Input |-> "x"]}
ClientStatuses == {"", "completed"}    \* a status field in the body of POST /task
ClientTimes == {0, MaxTime}            \* a timestamp field in the body of POST /task
Outputs == {"y", "z"}
ReqIDs == UUIDs \cup {""}              \* ids a client may name; "" is a missing id

\* The zero values of the Go structs.
NoTask == [ID |-> "", Topic |-> "", Input |-> "nil", Status |-> "", Timestamp |-> 0]
NoResult == [ID |-> "", Output |-> "nil"]

NoReq == [op |-> "", malformed |-> FALSE, topic |-> "", input |-> "nil", id |-> "",
          status |-> "", timestamp |-> 0, output |-> "nil"]
NoLoc == [currentTime |-> 0, id |-> "", task |-> NoTask, prev |-> NoResult]
NoResp == [code |-> 0, id |-> "", task |-> NoTask, result |-> NoResult, lines |-> {}]
\* No run of lease_task calls is being recorded.
NoPoll == [on |-> FALSE, topic |-> "", k |-> 0, log |-> <<>>]

VARIABLES
    taskStore,      \* map[string]Task: a function on the ids stored
    resultStore,    \* map[string]Result
    storeMutex,     \* the process holding the mutex, or NoProc
    now,            \* the monotonic clock read by time.Now()
    issued,         \* the ids uuid.New() has returned
    pc,             \* where each request is in its handler
    req,            \* the decoded request of each process
    loc,            \* the handler's local variables: the time it read and the task
                    \* it read from taskStore (with the Result it replaced, as history)
    resp,           \* what the handler wrote to its ResponseWriter
    submitted,      \* history: the output of the latest accepted POST /result, by id
    polled          \* history: while on, what the GET /task calls for polled.topic
                    \* have answered, in order: the id of the task, or "" for none

vars == <<taskStore, resultStore, storeMutex, now, issued, pc, req, loc, resp, submitted,
          polled>>

\* ---- helpers -----------------------------------------------------------------
\* m[k] = v on a Go map.
MapSet(m, k, v) == [i \in DOMAIN m \cup {k} |-> IF i = k THEN v ELSE m[i]]

\* uuid.New(): an id that was never returned before.
NewUUID == UUIDPool[Cardinality(issued) + 1]

\* Mutant: Lock() returns although another request holds the mutex.
MutexFree_NotHeld == TRUE

\* storeMutex.Lock() can return.
MutexFree == storeMutex = NoProc

\* Mutant: a lease exactly one hour old counts as expired.
Eligible_AtTTL(task, topic, currentTime) ==
    /\ task.Topic = topic
    /\ \/ task.Status = "new"
       \/ task.Status = "pending" /\ currentTime - task.Timestamp >= Hour

\* Mutant: the topic of the task is not compared.
Eligible_AnyTopic(task, topic, currentTime) ==
    \/ task.Status = "new"
    \/ task.Status = "pending" /\ currentTime - task.Timestamp > Hour

\* Mutant: a pending task is never handed out again.
Eligible_NewOnly(task, topic, currentTime) ==
    task.Topic = topic /\ task.Status = "new"

\* Mutant: the status of the task is not tested.
Eligible_NoStatusTest(task, topic, currentTime) == task.Topic = topic

\* The condition of the scan in handleRetrieveTask.
Eligible(task, topic, currentTime) ==
    /\ task.Topic = topic
    /\ \/ task.Status = "new"
       \/ task.Status = "pending" /\ currentTime - task.Timestamp > Hour

\* Mutant: the lease time is not refreshed.
Leased_StaleTimestamp(task, currentTime) == [task EXCEPT !.Status = "pending"]

\* Mutant: the copy that is stored and returned has lost its input.
Leased_DropsInput(task, currentTime) ==
    [task EXCEPT !.Status = "pending", !.Timestamp = currentTime, !.Input = "nil"]

\* The update of a matched task in handleRetrieveTask.
Leased(task, currentTime) ==
    [task EXCEPT !.Status = "pending", !.Timestamp = currentTime]

\* Mutant: the completed task is written as a new struct with its id only.
Completed_IdOnly(task) == [NoTask EXCEPT !.ID = task.ID, !.Status = "completed"]

\* The update of the task in handleSubmitResult.
Completed(task) == [task EXCEPT !.Status = "completed"]

\* Mutant: the line of a task is written without the status.
TaskLine_NoStatus(id) == <<"Task", id, "">>

\* One line of the dump of handleObserve.
TaskLine(id) == <<"Task", id, taskStore[id].Status>>
ResultLine(id) == <<"Result", id, resultStore[id].ID>>

\* The history of the answers of GET /task, with one more answer.
Logged(topic, answer) ==
    IF polled.on /\ topic = polled.topic
    THEN [polled EXCEPT !.log = Append(@, answer)]
    ELSE polled

\* The handler returns: the response is written and the process is done.
Respond(p, r) ==
    /\ resp' = [resp EXCEPT ![p] = r]
    /\ pc' = [pc EXCEPT ![p] = "done"]

\* A response is read by its client before the clock moves on and before the
\* server accepts another request; the requests in flight go on.
Undelivered == \E p \in Procs : pc[p] = "done"

\* The server accepts a request from client p.
Accepted(p) == pc[p] = "idle" /\ ~Undelivered

\* ---- initial state ------------------------------------------------------------
Init ==
    /\ taskStore = <<>>
    /\ resultStore = <<>>
    /\ storeMutex = NoProc
    /\ now = 0
    /\ issued = {}
    /\ pc = [p \in Procs |-> "idle"]
    /\ req = [p \in Procs |-> NoReq]
    /\ loc = [p \in Procs |-> NoLoc]
    /\ resp = [p \in Procs |-> NoResp]
    /\ polled = NoPoll
    /\ submitted = <<>>

\* ---- the clock ------------------------------------------------------------------
Tick ==
    /\ now < MaxTime
    /\ ~Undelivered
    /\ now' = now + 1
    /\ UNCHANGED <<taskStore, resultStore, storeMutex, issued, pc, req, loc, resp, submitted, polled>>

\* ---- POST /task ------------------------------------------------------------------
\* What json.Decode leaves in `task`: the client may fill every field.
Decoded(body, cid, cstatus, ctime) ==
    [ID |-> cid, Topic |-> body.Topic, Input |-> body.Input,
     Status |-> cstatus, Timestamp |-> ctime]

\* Mutant: the id that came in the body is kept.
Stamped_KeepsID(task, id, t) == [task EXCEPT !.Status = "new", !.Timestamp = t]

\* Mutant: the status that came in the body is kept.
Stamped_KeepsStatus(task, id, t) == [task EXCEPT !.ID = id, !.Timestamp = t]

\* The three assignments that follow the decoding.
Stamped(task, id, t) == [task EXCEPT !.ID = id, !.Status = "new", !.Timestamp = t]

\* The whole handler.  time.Now() is read before the mutex is taken, so the
\* timestamp stored may be any time up to the time of the insertion.
handleTaskSubmit(p) ==
    /\ Accepted(p)
    /\ \/ /\ req' = [req EXCEPT ![p] = [NoReq EXCEPT !.op = "submit_task", !.malformed = TRUE]]
          /\ Respond(p, [NoResp EXCEPT !.code = StatusBadRequest])
          /\ UNCHANGED <<taskStore, issued, loc>>
       \/ /\ Cardinality(issued) < MaxTasks
          /\ MutexFree
          /\ \E body \in TaskBodies, cid \in ReqIDs, cstatus \in ClientStatuses,
                ctime \in ClientTimes, t \in 0..now :
                LET task == Stamped(Decoded(body, cid, cstatus, ctime), NewUUID, t)
                IN  /\ req' = [req EXCEPT ![p] =
                                  [NoReq EXCEPT !.op = "submit_task", !.topic = body.Topic,
                                                !.input = body.Input, !.id = cid,
                                                !.status = cstatus, !.timestamp = ctime]]
                    /\ loc' = [loc EXCEPT ![p] = [NoLoc EXCEPT !.id = task.ID, !.task = task]]
                    /\ taskStore' = MapSet(taskStore, task.ID, task)
                    /\ issued' = issued \cup {NewUUID}
                    /\ Respond(p, [NoResp EXCEPT !.code = StatusCreated, !.id = task.ID])
    /\ UNCHANGED <<resultStore, storeMutex, now, submitted, polled>>

\* ---- GET /task?topic=T -------------------------------------------------------
handleRetrieveTaskDecode(p) ==
    /\ Accepted(p)
    /\ \E topic \in Topics :
        /\ req' = [req EXCEPT ![p] = [NoReq EXCEPT !.op = "lease_task", !.topic = topic]]
        /\ IF topic = ""
           THEN Respond(p, [NoResp EXCEPT !.code = StatusBadRequest])
           ELSE pc' = [pc EXCEPT ![p] = "lock"] /\ UNCHANGED resp
    /\ UNCHANGED <<taskStore, resultStore, storeMutex, now, issued, loc, submitted, polled>>

\* time.Now() and the range over taskStore: the iteration order of a Go map is
\* not defined, so any matching task may be the first one met.
handleRetrieveTaskScan(p) ==
    /\ pc[p] = "lock" /\ req[p].op = "lease_task"
    /\ MutexFree
    /\ \/ \E id \in DOMAIN taskStore :
            /\ Eligible(taskStore[id], req[p].topic, now)
            /\ loc' = [loc EXCEPT ![p] = [NoLoc EXCEPT !.currentTime = now, !.id = id,
                                                       !.task = taskStore[id]]]
            /\ pc' = [pc EXCEPT ![p] = "update"]
            /\ storeMutex' = p
            /\ UNCHANGED <<resp, polled>>
       \/ /\ \A id \in DOMAIN taskStore : ~Eligible(taskStore[id], req[p].topic, now)
          /\ loc' = [loc EXCEPT ![p] = [NoLoc EXCEPT !.currentTime = now]]
          /\ polled' = Logged(req[p].topic, "")
          /\ UNCHANGED storeMutex
          /\ Respond(p, [NoResp EXCEPT !.code = StatusNoContent])
    /\ UNCHANGED <<taskStore, resultStore, now, issued, req, submitted>>

\* The matched task is marked pending, stored, encoded; the deferred Unlock runs.
handleRetrieveTaskUpdate(p) ==
    /\ pc[p] = "update"
    /\ taskStore' = MapSet(taskStore, loc[p].id, Leased(loc[p].task, loc[p].currentTime))
    /\ storeMutex' = NoProc
    /\ Respond(p, [NoResp EXCEPT !.code = StatusOK,
                                 !.task = Leased(loc[p].task, loc[p].currentTime)])
    /\ polled' = Logged(req[p].topic, Leased(loc[p].task, loc[p].currentTime).ID)
    /\ UNCHANGED <<resultStore, now, issued, req, loc, submitted>>

\* ---- POST /result ------------------------------------------------------------
\* Mutant: the result is stored before the task is looked up.
SubmitResult_StoreFirst(id, output) ==
    IF id \notin DOMAIN taskStore
    THEN [code |-> StatusNotFound, tasks |-> taskStore,
          results |-> MapSet(resultStore, id, [ID |-> id, Output |-> output])]
    ELSE [code |-> StatusOK,
          tasks |-> MapSet(taskStore, id, Completed(taskStore[id])),
          results |-> MapSet(resultStore, id, [ID |-> id, Output |-> output])]

\* Mutant: only a task that is leased takes a result.
SubmitResult_PendingOnly(id, output) ==
    IF id \notin DOMAIN taskStore \/ taskStore[id].Status # "pending"
    THEN [code |-> StatusNotFound, tasks |-> taskStore, results |-> resultStore]
    ELSE [code |-> StatusOK,
          tasks |-> MapSet(taskStore, id, Completed(taskStore[id])),
          results |-> MapSet(resultStore, id, [ID |-> id, Output |-> output])]

\* Mutant: a result that is already stored is kept.
SubmitResult_FirstWins(id, output) ==
    IF id \notin DOMAIN taskStore
    THEN [code |-> StatusNotFound, tasks |-> taskStore, results |-> resultStore]
    ELSE [code |-> StatusOK,
          tasks |-> MapSet(taskStore, id, Completed(taskStore[id])),
          results |-> IF id \in DOMAIN resultStore THEN resultStore
                      ELSE MapSet(resultStore, id, [ID |-> id, Output |-> output])]

\* Mutant: the map of results is made anew for the result that comes in.
SubmitResult_ResetsResults(id, output) ==
    IF id \notin DOMAIN taskStore
    THEN [code |-> StatusNotFound, tasks |-> taskStore, results |-> resultStore]
    ELSE [code |-> StatusOK,
          tasks |-> MapSet(taskStore, id, Completed(taskStore[id])),
          results |-> MapSet(<<>>, id, [ID |-> id, Output |-> output])]

\* Mutant: the result is stored and the task is left as it was.
SubmitResult_KeepsStatus(id, output) ==
    IF id \notin DOMAIN taskStore
    THEN [code |-> StatusNotFound, tasks |-> taskStore, results |-> resultStore]
    ELSE [code |-> StatusOK,
          tasks |-> taskStore,
          results |-> MapSet(resultStore, id, [ID |-> id, Output |-> output])]

\* The critical section: the response code and the two stores it leaves.
SubmitResult(id, output) ==
    IF id \notin DOMAIN taskStore
    THEN [code |-> StatusNotFound, tasks |-> taskStore, results |-> resultStore]
    ELSE [code |-> StatusOK,
          tasks |-> MapSet(taskStore, id, Completed(taskStore[id])),
          results |-> MapSet(resultStore, id, [ID |-> id, Output |-> output])]

handleSubmitResult(p) ==
    /\ Accepted(p)
    /\ \/ /\ req' = [req EXCEPT ![p] = [NoReq EXCEPT !.op = "submit_result", !.malformed = TRUE]]
          /\ Respond(p, [NoResp EXCEPT !.code = StatusBadRequest])
          /\ UNCHANGED <<taskStore, resultStore, loc, submitted>>
       \/ /\ MutexFree
          /\ \E id \in ReqIDs, output \in Outputs :
                /\ req' = [req EXCEPT ![p] = [NoReq EXCEPT !.op = "submit_result",
                                                           !.id = id, !.output = output]]
                /\ loc' = [loc EXCEPT ![p] =
                              IF id \in DOMAIN taskStore
                              THEN [NoLoc EXCEPT !.id = id, !.task = taskStore[id],
                                                 !.prev = IF id \in DOMAIN resultStore
                                                          THEN resultStore[id] ELSE NoResult]
                              ELSE NoLoc]
                /\ taskStore' = SubmitResult(id, output).tasks
                /\ resultStore' = SubmitResult(id, output).results
                /\ submitted' = IF SubmitResult(id, output).code = StatusOK
                                THEN MapSet(submitted, id, output) ELSE submitted
                /\ Respond(p, [NoResp EXCEPT !.code = SubmitResult(id, output).code])
    /\ UNCHANGED <<storeMutex, now, issued, polled>>

\* ---- GET /result?id=I --------------------------------------------------------
\* Mutant: the result is looked up before the task.
GetResult_ResultFirst(id) ==
    IF id \notin DOMAIN resultStore THEN [NoResp EXCEPT !.code = StatusAccepted]
    ELSE IF id \notin DOMAIN taskStore THEN [NoResp EXCEPT !.code = StatusNotFound]
    ELSE [NoResp EXCEPT !.code = StatusOK, !.result = resultStore[id]]

\* The critical section of the handler: what it answers for id.
GetResult(id) ==
    IF id \notin DOMAIN taskStore THEN [NoResp EXCEPT !.code = StatusNotFound]
    ELSE IF id \notin DOMAIN resultStore THEN [NoResp EXCEPT !.code = StatusAccepted]
    ELSE [NoResp EXCEPT !.code = StatusOK, !.result = resultStore[id]]

handleGetResult(p) ==
    /\ Accepted(p)
    /\ \E id \in ReqIDs :
        /\ req' = [req EXCEPT ![p] = [NoReq EXCEPT !.op = "get_result", !.id = id]]
        /\ IF id = ""
           THEN Respond(p, [NoResp EXCEPT !.code = StatusBadRequest])
           ELSE MutexFree /\ Respond(p, GetResult(id))
    /\ UNCHANGED <<taskStore, resultStore, storeMutex, now, issued, loc, submitted, polled>>

\* ---- GET /observe --------------------------------------------------------------
handleObserve(p) ==
    /\ Accepted(p)
    /\ MutexFree
    /\ req' = [req EXCEPT ![p] = [NoReq EXCEPT !.op = "observe"]]
    /\ Respond(p, [NoResp EXCEPT !.code = StatusOK,
                                 !.lines = {TaskLine(id) : id \in DOMAIN taskStore}
                                           \cup {ResultLine(id) : id \in DOMAIN resultStore}])
    /\ UNCHANGED <<taskStore, resultStore, storeMutex, now, issued, loc, submitted, polled>>

\* ---- the client has read the response ------------------------------------------
Return(p) ==
    /\ pc[p] = "done"
    /\ pc' = [pc EXCEPT ![p] = "idle"]
    /\ req' = [req EXCEPT ![p] = NoReq]
    /\ loc' = [loc EXCEPT ![p] = NoLoc]
    /\ resp' = [resp EXCEPT ![p] = NoResp]
    /\ UNCHANGED <<taskStore, resultStore, storeMutex, now, issued, submitted, polled>>

Next ==
    \/ Tick
    \/ \E p \in Procs :
        \/ handleTaskSubmit(p)
        \/ handleRetrieveTaskDecode(p)
        \/ handleRetrieveTaskScan(p)
        \/ handleRetrieveTaskUpdate(p)
        \/ handleSubmitResult(p)
        \/ handleGetResult(p)
        \/ handleObserve(p)
        \/ Return(p)

Spec == Init /\ [][Next]_vars

\* ---- two concurrent GET /task on a store with one eligible task --------------
\* The stores the handlers can have built by the hour t: what a task can look
\* like apart from its id.  A task without a topic is never leased, so it is
\* never pending.
Shapes(t) ==
    {sh \in [Topic : {b.Topic : b \in TaskBodies}, Input : Inputs,
             Status : {"new", "pending", "completed"}, Timestamp : 0..t] :
        /\ [Topic |-> sh.Topic, Input |-> sh.Input] \in TaskBodies
        /\ sh.Status = "pending" => sh.Topic # ""}

\* The condition of the claims on a task that lease_task may hand out: new, or
\* pending with a lease older than the TTL.
LeasableAt(task, topic, t) ==
    /\ task.Topic = topic
    /\ \/ task.Status = "new"
       \/ task.Status = "pending" /\ t - task.Timestamp > Hour

LeasableIds(tasks, topic, t) ==
    {id \in DOMAIN tasks : LeasableAt(tasks[id], topic, t)}

\* The tasks of ids UUIDPool[1..n] that the handlers can have stored by now.
\* Ids are handed out in the order of insertion, so a task leased at hour t was
\* inserted by t, and so was every task inserted before it; the timestamp of a
\* task that was never leased is a time read before its insertion.
NeverLeased(sh) == sh.Status = "new" \/ sh.Topic = ""

Stored(n) ==
    {sh \in [1..n -> Shapes(now)] :
        \A i, j \in 1..n :
            i < j /\ NeverLeased(sh[i]) /\ sh[j].Status = "pending"
                => sh[j].Timestamp >= sh[i].Timestamp}

\* Both requests wait for the mutex; exactly one stored task can be leased for
\* the topic they ask for.
InitLease2 ==
    /\ now \in 0..MaxTime
    /\ \E n \in 1..MaxTasks : \E sh \in Stored(n) :
        /\ issued = {UUIDPool[i] : i \in 1..n}
        /\ taskStore = [id \in {UUIDPool[i] : i \in 1..n} |->
                           LET i == CHOOSE k \in 1..n : UUIDPool[k] = id
                           IN  [ID |-> id, Topic |-> sh[i].Topic, Input |-> sh[i].Input,
                                Status |-> sh[i].Status, Timestamp |-> sh[i].Timestamp]]
        /\ \E out \in [{UUIDPool[i] : i \in {k \in 1..n : sh[k].Status = "completed"}}
                            -> Outputs] :
            /\ resultStore = [id \in DOMAIN out |-> [ID |-> id, Output |-> out[id]]]
            /\ submitted = out
    /\ storeMutex = NoProc
    /\ \E topic \in Topics \ {""} :
        /\ Cardinality(LeasableIds(taskStore, topic, now)) = 1
        /\ req = [p \in Procs |-> [NoReq EXCEPT !.op = "lease_task", !.topic = topic]]
    /\ pc = [p \in Procs |-> "lock"]
    /\ loc = [p \in Procs |-> NoLoc]
    /\ resp = [p \in Procs |-> NoResp]
    /\ polled = NoPoll

NextLease2 ==
    \E p \in Procs :
        \/ handleRetrieveTaskScan(p)
        \/ handleRetrieveTaskUpdate(p)

SpecLease2 == InitLease2 /\ [][NextLease2]_vars

\* ---- one client: submit a task, lease it, submit its result, fetch it ----------
\* The id uuid.New() gives to the task of the client: the store holds
\* MaxTasks - 1 tasks when the client starts.
E2EClient == "c1"
E2EId == UUIDPool[MaxTasks]

InitE2E ==
    /\ now \in 0..MaxTime
    /\ \E sh \in Stored(MaxTasks - 1) :
        /\ issued = {UUIDPool[i] : i \in 1..(MaxTasks - 1)}
        /\ taskStore = [id \in {UUIDPool[i] : i \in 1..(MaxTasks - 1)} |->
                           LET i == CHOOSE k \in 1..(MaxTasks - 1) : UUIDPool[k] = id
                           IN  [ID |-> id, Topic |-> sh[i].Topic, Input |-> sh[i].Input,
                                Status |-> sh[i].Status, Timestamp |-> sh[i].Timestamp]]
        /\ \E out \in [{UUIDPool[i] : i \in {k \in 1..(MaxTasks - 1) :
                                                  sh[k].Status = "completed"}} -> Outputs] :
            /\ resultStore = [id \in DOMAIN out |-> [ID |-> id, Output |-> out[id]]]
            /\ submitted = out
    /\ storeMutex = NoProc
    /\ pc = [p \in Procs |-> "idle"]
    /\ req = [p \in Procs |-> NoReq]
    /\ loc = [p \in Procs |-> NoLoc]
    /\ resp = [p \in Procs |-> NoResp]
    /\ polled = NoPoll

\* The clock moves between the calls of the client.
E2ETick == pc[E2EClient] = "idle" /\ Tick

\* POST /task, once.
E2ESubmitTask == E2EId \notin DOMAIN taskStore /\ handleTaskSubmit(E2EClient)

\* GET /task for the topic of the task, when no other task of the topic can
\* be leased.
E2ELeaseTask ==
    /\ E2EId \in DOMAIN taskStore
    /\ taskStore[E2EId].Status = "new"
    /\ LeasableIds(taskStore, taskStore[E2EId].Topic, now) = {E2EId}
    /\ handleRetrieveTaskDecode(E2EClient)
    /\ req'[E2EClient].topic = taskStore[E2EId].Topic

E2ELeaseTaskScan == handleRetrieveTaskScan(E2EClient)

E2ELeaseTaskUpdate == handleRetrieveTaskUpdate(E2EClient)

\* POST /result for the task that was leased.
E2ESubmitResult ==
    /\ E2EId \in DOMAIN taskStore
    /\ taskStore[E2EId].Status = "pending"
    /\ handleSubmitResult(E2EClient)
    /\ ~req'[E2EClient].malformed
    /\ req'[E2EClient].id = E2EId

\* GET /result for the task.
E2EGetResult ==
    /\ E2EId \in DOMAIN taskStore
    /\ taskStore[E2EId].Status = "completed"
    /\ handleGetResult(E2EClient)
    /\ req'[E2EClient].id = E2EId

E2EReturn == Return(E2EClient)

NextE2E ==
    \/ E2ETick
    \/ E2ESubmitTask
    \/ E2ELeaseTask
    \/ E2ELeaseTaskScan
    \/ E2ELeaseTaskUpdate
    \/ E2ESubmitResult
    \/ E2EGetResult
    \/ E2EReturn

SpecE2E == InitE2E /\ [][NextE2E]_vars

\* ---- lease_task calls for one topic, one after the other ------------------------
\* No request is being served.
AllIdle == \A p \in Procs : pc[p] = "idle"

\* A store the handlers can have built, a topic, and the number k of tasks of
\* the topic that can be leased; the answers of the calls are recorded.
InitPoll ==
    /\ now \in 0..MaxTime
    /\ \E n \in 1..MaxTasks : \E sh \in Stored(n) :
        /\ issued = {UUIDPool[i] : i \in 1..n}
        /\ taskStore = [id \in {UUIDPool[i] : i \in 1..n} |->
                           LET i == CHOOSE k \in 1..n : UUIDPool[k] = id
                           IN  [ID |-> id, Topic |-> sh[i].Topic, Input |-> sh[i].Input,
                                Status |-> sh[i].Status, Timestamp |-> sh[i].Timestamp]]
        /\ \E out \in [{UUIDPool[i] : i \in {k \in 1..n : sh[k].Status = "completed"}}
                            -> Outputs] :
            /\ resultStore = [id \in DOMAIN out |-> [ID |-> id, Output |-> out[id]]]
            /\ submitted = out
    /\ storeMutex = NoProc
    /\ pc = [p \in Procs |-> "idle"]
    /\ req = [p \in Procs |-> NoReq]
    /\ loc = [p \in Procs |-> NoLoc]
    /\ resp = [p \in Procs |-> NoResp]
    /\ \E topic \in Topics \ {""} :
        polled = [on |-> TRUE, topic |-> topic,
                  k |-> Cardinality(LeasableIds(taskStore, topic, now)), log |-> <<>>]

\* The clock moves between two calls, as long as no lease of the topic expires.
PollTick ==
    /\ AllIdle
    /\ LeasableIds(taskStore, polled.topic, now + 1)
            \subseteq LeasableIds(taskStore, polled.topic, now)
    /\ Tick

\* The next GET /task for the topic, up to the call after the k-th.
PollLeaseTask(p) ==
    /\ AllIdle
    /\ Len(polled.log) <= polled.k
    /\ handleRetrieveTaskDecode(p)
    /\ req'[p].topic = polled.topic

NextPoll ==
    \/ PollTick
    \/ \E p \in Procs :
        \/ PollLeaseTask(p)
        \/ handleRetrieveTaskScan(p)
        \/ handleRetrieveTaskUpdate(p)
        \/ Return(p)

SpecPoll == InitPoll /\ [][NextPoll]_vars

\* ---- workers that poll for ever and submit what they receive --------------------
\* Requests are served one at a time.  Producers submit tasks (at most
\* MaxTasks), workers poll every topic and submit a result for a task that
\* is leased, and the clock may move or stand still.
LiveSubmitTask(p) == AllIdle /\ handleTaskSubmit(p)

\* A worker calls lease_task(topic).
LivePoll(p, topic) ==
    /\ AllIdle
    /\ handleRetrieveTaskDecode(p)
    /\ req'[p].topic = topic

LiveLeaseTask(p) == \E topic \in Topics \ {""} : LivePoll(p, topic)

\* A worker that received the task id calls submit_result for it.
LiveSubmitResult(p, id) ==
    /\ AllIdle
    /\ id \in DOMAIN taskStore
    /\ taskStore[id].Status = "pending"
    /\ handleSubmitResult(p)
    /\ ~req'[p].malformed
    /\ req'[p].id = id

LiveWorker(p) == \E id \in UUIDs : LiveSubmitResult(p, id)

NextLive ==
    \/ Tick
    \/ \E p \in Procs :
        \/ LiveSubmitTask(p)
        \/ LiveLeaseTask(p)
        \/ handleRetrieveTaskScan(p)
        \/ handleRetrieveTaskUpdate(p)
        \/ LiveWorker(p)
        \/ Return(p)

\* A request that is being served is served to its end and its response is
\* read.  lease_task is called again and again for every topic, and a task
\* that is leased gets a submit_result from the worker that received it: a
\* call can start only when no other request is being served, so "again and
\* again" is strong fairness of the call.
FairLive ==
    /\ \A p \in Procs :
        /\ WF_vars(handleRetrieveTaskScan(p))
        /\ WF_vars(handleRetrieveTaskUpdate(p))
        /\ WF_vars(Return(p))
    /\ \A topic \in Topics \ {""} : SF_vars(\E p \in Procs : LivePoll(p, topic))
    /\ \A id \in UUIDs : SF_vars(\E p \in Procs : LiveSubmitResult(p, id))

SpecLive == Init /\ [][NextLive]_vars /\ FairLive

\* ---- the claims ------------------------------------------------------------------
\* Request p has returned from handler op.
Returned(p, op) == pc[p] = "done" /\ req[p].op = op /\ ~req[p].malformed

\* Request p has returned from GET /task with a task.
Leases(p) == Returned(p, "lease_task") /\ resp[p].code = StatusOK

\* C1: of two concurrent lease_task(topic) calls on a store with exactly one
\* leasable task for the topic, one receives the task and the other receives
\* "none" (204), whatever the interleaving; they never both receive the task.
C1_MutualExclusion ==
    (\A p \in Procs : pc[p] = "done") =>
        \E p \in Procs :
            /\ resp[p].code = StatusOK
            /\ resp[p].task.Topic = req[p].topic
            /\ \A q \in Procs \ {p} :
                /\ resp[q].code = StatusNoContent
                /\ resp[q].task = NoTask

\* Both calls have returned; the one that took the mutex second holds the task,
\* a pending task whose lease had expired.
C1_Witness ==
    /\ \A p \in Procs : pc[p] = "done"
    /\ resp["c1"].code = StatusNoContent
    /\ resp["c2"].code = StatusOK
    /\ loc["c2"].task.Status = "pending"
    /\ Cardinality(DOMAIN taskStore) = MaxTasks

\* C2: lease_task never returns a task that was pending with a lease within the
\* TTL (now - lease_time <= one hour, one hour included), and two leases of the
\* same task are more than the TTL apart.
C2_NoLeaseWithinTTL ==
    /\ \A p \in Procs :
        Leases(p) /\ loc[p].task.Status = "pending" =>
            ~(loc[p].currentTime - loc[p].task.Timestamp <= Hour)
    /\ \A p, q \in Procs :
        p # q /\ Leases(p) /\ Leases(q) /\ resp[p].task.ID = resp[q].task.ID =>
            \/ resp[p].task.Timestamp - resp[q].task.Timestamp > Hour
            \/ resp[q].task.Timestamp - resp[p].task.Timestamp > Hour

\* lease_task has answered "none" although a task of the topic is pending with
\* a lease exactly one hour old.
C2_Witness ==
    \E p \in Procs :
        /\ Returned(p, "lease_task")
        /\ resp[p].code = StatusNoContent
        /\ \E id \in DOMAIN taskStore :
            /\ taskStore[id].Topic = req[p].topic
            /\ taskStore[id].Status = "pending"
            /\ now - taskStore[id].Timestamp = Hour

\* C3: a pending task without a result can be leased again once its lease is
\* older than the TTL; the new lease leaves it pending with lease_time set to
\* the time of the new lease, so that it cannot be leased during the next TTL.
C3_ReLeaseRefreshes ==
    \A p \in Procs :
        Leases(p) /\ loc[p].task.Status = "pending" =>
            /\ loc[p].currentTime - loc[p].task.Timestamp > Hour
            /\ resp[p].task.ID \notin DOMAIN resultStore
            /\ resp[p].task.Status = "pending"
            /\ resp[p].task.Timestamp = loc[p].currentTime
            /\ taskStore[resp[p].task.ID] = resp[p].task
            /\ \A t \in loc[p].currentTime .. loc[p].currentTime + Hour :
                ~LeasableAt(taskStore[resp[p].task.ID], req[p].topic, t)

\* A task leased at hour 0 has been leased again after its lease expired.
C3_Witness ==
    \E p \in Procs :
        /\ Leases(p)
        /\ loc[p].task.Status = "pending"
        /\ loc[p].task.Timestamp = 0
        /\ resp[p].task.Timestamp > Hour

\* C4: lease_task(topic) never returns a task of another topic.
C4_TopicMatches ==
    \A p \in Procs :
        Leases(p) =>
            /\ resp[p].task.Topic = req[p].topic
            /\ loc[p].task.Topic = req[p].topic
            /\ taskStore[resp[p].task.ID].Topic = req[p].topic

\* A task of topic "b" was returned while a new task of topic "a" was stored.
C4_Witness ==
    \E p \in Procs :
        /\ Leases(p)
        /\ req[p].topic = "b"
        /\ \E id \in DOMAIN taskStore :
            taskStore[id].Topic = "a" /\ taskStore[id].Status = "new"

\* The step in which request p returns from handler op.
Returns(p, op) ==
    pc[p] # "done" /\ pc'[p] = "done" /\ req'[p].op = op /\ ~req'[p].malformed

\* C5: lease_task(topic), topic not empty, answers "none" (204) exactly when no
\* stored task of the topic is new or pending with an expired lease, as on an
\* empty store; otherwise it returns one of those tasks.  "none" changes no
\* Task and no Result.
C5_NoneIffNothingLeasable ==
    [][\A p \in Procs :
        Returns(p, "lease_task") /\ req'[p].topic # "" =>
            LET leasable == LeasableIds(taskStore, req'[p].topic, loc'[p].currentTime)
            IN  /\ resp'[p].code \in {StatusOK, StatusNoContent}
                /\ (resp'[p].code = StatusNoContent) <=> (leasable = {})
                /\ resp'[p].code = StatusNoContent =>
                        taskStore' = taskStore /\ resultStore' = resultStore
                /\ resp'[p].code = StatusOK => resp'[p].task.ID \in leasable]_vars

\* "none" was answered on a store that holds a completed task of the topic and
\* a new task of another topic.
C5_Witness ==
    \E p \in Procs :
        /\ Returned(p, "lease_task")
        /\ resp[p].code = StatusNoContent
        /\ \E id, other \in DOMAIN taskStore :
            /\ taskStore[id].Topic = req[p].topic
            /\ taskStore[id].Status = "completed"
            /\ taskStore[other].Topic \notin {req[p].topic, ""}
            /\ taskStore[other].Status = "new"

\* C6: a successful lease_task sets the stored status of the returned task to
\* pending and its lease_time to the time the handler read, changes nothing
\* else of that task, no other Task and no Result, and returns the stored
\* record, with its id and input and status pending.
C6_LeaseFrame ==
    [][\A p \in Procs :
        Returns(p, "lease_task") /\ resp'[p].code = StatusOK =>
            LET id == resp'[p].task.ID
            IN  /\ id \in DOMAIN taskStore
                /\ DOMAIN taskStore' = DOMAIN taskStore
                /\ taskStore'[id] = [ID |-> taskStore[id].ID,
                                     Topic |-> taskStore[id].Topic,
                                     Input |-> taskStore[id].Input,
                                     Status |-> "pending",
                                     Timestamp |-> loc'[p].currentTime]
                /\ loc'[p].currentTime <= now
                /\ \A other \in DOMAIN taskStore \ {id} : taskStore'[other] = taskStore[other]
                /\ resultStore' = resultStore
                /\ resp'[p].task = taskStore'[id]
                /\ resp'[p].task.ID = id]_vars

\* A task with an input was leased from a store that holds another task and a
\* Result.
C6_Witness ==
    \E p \in Procs :
        /\ Leases(p)
        /\ resp[p].task.Input = "x"
        /\ Cardinality(DOMAIN taskStore) > 1
        /\ resultStore # <<>>

\* C7: submit_result for an id without a Task answers 404, stores no Result
\* and changes no Task and no Result.
C7_UnknownIdRejected ==
    [][\A p \in Procs :
        Returns(p, "submit_result") /\ req'[p].id \notin DOMAIN taskStore =>
            /\ resp'[p].code = StatusNotFound
            /\ req'[p].id \notin DOMAIN resultStore'
            /\ taskStore' = taskStore
            /\ resultStore' = resultStore]_vars

\* A result for an id that uuid.New() has not returned yet was refused, on a
\* store that holds a task.
C7_Witness ==
    \E p \in Procs :
        /\ Returned(p, "submit_result")
        /\ resp[p].code = StatusNotFound
        /\ req[p].id \in UUIDs \ issued
        /\ taskStore # <<>>

\* C8: submit_result for a stored Task succeeds in every status of the task:
\* the Result is stored under the id and the Task is completed.
C8_AcceptedInAnyStatus ==
    \A p \in Procs :
        Returned(p, "submit_result") /\ req[p].id \in DOMAIN taskStore =>
            /\ resp[p].code = StatusOK
            /\ req[p].id \in DOMAIN resultStore
            /\ resultStore[req[p].id] = [ID |-> req[p].id, Output |-> req[p].output]
            /\ taskStore[req[p].id].Status = "completed"

\* A result was accepted for a task that was pending with an expired lease.
C8_Witness ==
    \E p \in Procs :
        /\ Returned(p, "submit_result")
        /\ resp[p].code = StatusOK
        /\ loc[p].task.Status = "pending"
        /\ now - loc[p].task.Timestamp > Hour

\* C9: get_result(id) answers 404 when no Task has the id, 202 when the Task
\* has no Result, and else 200 with the Result of that id whose output is the
\* output of the latest accepted submit_result for the id.
C9_GetResult ==
    \A p \in Procs :
        Returned(p, "get_result") /\ req[p].id # "" =>
            /\ req[p].id \notin DOMAIN taskStore =>
                    resp[p].code = StatusNotFound /\ resp[p].result = NoResult
            /\ req[p].id \in DOMAIN taskStore /\ req[p].id \notin DOMAIN resultStore =>
                    resp[p].code = StatusAccepted /\ resp[p].result = NoResult
            /\ req[p].id \in DOMAIN taskStore /\ req[p].id \in DOMAIN resultStore =>
                    /\ resp[p].code = StatusOK
                    /\ req[p].id \in DOMAIN submitted
                    /\ resp[p].result = [ID |-> req[p].id, Output |-> submitted[req[p].id]]

\* A Result was fetched while the other id is still unknown to the store.
C9_Witness ==
    \E p \in Procs :
        /\ Returned(p, "get_result")
        /\ resp[p].code = StatusOK
        /\ resp[p].result.Output = "z"
        /\ UUIDs \ issued # {}

\* C10: a second submit_result for an id replaces the stored output by the
\* second one, the Task stays completed, and when the second output is the
\* stored one the stores are left as they were.
C10_LastWriteWins ==
    [][\A p \in Procs :
        Returns(p, "submit_result") /\ req'[p].id \in DOMAIN resultStore =>
            /\ resp'[p].code = StatusOK
            /\ resultStore'[req'[p].id] = [ID |-> req'[p].id, Output |-> req'[p].output]
            /\ taskStore[req'[p].id].Status = "completed"
            /\ taskStore' = taskStore
            /\ \A other \in DOMAIN resultStore \ {req'[p].id} :
                    resultStore'[other] = resultStore[other]
            /\ resultStore[req'[p].id].Output = req'[p].output =>
                    resultStore' = resultStore]_vars

\* The output "y" of a completed task was replaced by "z".
C10_Witness ==
    \E p \in Procs :
        /\ Returned(p, "submit_result")
        /\ resp[p].code = StatusOK
        /\ loc[p].prev.Output = "y"
        /\ resultStore[req[p].id].Output = "z"

\* C11 as claimed: a Result, once it exists, is never removed and its output is
\* the same in every later state.
C11_ResultNeverMutated ==
    [][\A id \in DOMAIN resultStore :
        id \in DOMAIN resultStore' /\ resultStore'[id] = resultStore[id]]_vars

\* C11, amended: a Result is created by an accepted submit_result and never
\* removed; its output changes only when a later accepted submit_result for
\* the same id replaces it by the output submitted.
C11_ResultReplacedOnlyBySubmit ==
    [][/\ DOMAIN resultStore \subseteq DOMAIN resultStore'
       /\ \A id \in DOMAIN resultStore' :
            id \notin DOMAIN resultStore \/ resultStore'[id] # resultStore[id] =>
                \E p \in Procs :
                    /\ Returns(p, "submit_result")
                    /\ resp'[p].code = StatusOK
                    /\ req'[p].id = id
                    /\ resultStore'[id] = [ID |-> id, Output |-> req'[p].output]]_vars

\* The output "z" of one Result was replaced by "y" while the Result of
\* another task stayed in the store.
C11_Witness ==
    \E p \in Procs :
        /\ Returned(p, "submit_result")
        /\ resp[p].code = StatusOK
        /\ loc[p].prev.Output = "z"
        /\ resultStore[req[p].id].Output = "y"
        /\ Cardinality(DOMAIN resultStore) > 1

\* C12: every submit_task answers 201 with an id that no stored Task has and
\* that was never returned before, inserts one Task under that id, with
\* status new and the topic and input submitted, and changes no other Task
\* and no Result.
C12_FreshIdOneNewTask ==
    [][\A p \in Procs :
        Returns(p, "submit_task") =>
            LET id == resp'[p].id
            IN  /\ resp'[p].code = StatusCreated
                /\ id \notin DOMAIN taskStore
                /\ id \notin issued
                /\ DOMAIN taskStore' = DOMAIN taskStore \cup {id}
                /\ taskStore'[id].ID = id
                /\ taskStore'[id].Status = "new"
                /\ taskStore'[id].Topic = req'[p].topic
                /\ taskStore'[id].Input = req'[p].input
                /\ \A other \in DOMAIN taskStore : taskStore'[other] = taskStore[other]
                /\ resultStore' = resultStore]_vars

\* A second task was inserted next to a completed task and its Result.
C12_Witness ==
    \E p \in Procs :
        /\ Returned(p, "submit_task")
        /\ resp[p].code = StatusCreated
        /\ \E other \in DOMAIN taskStore \ {resp[p].id} :
            /\ taskStore[other].Status = "completed"
            /\ other \in DOMAIN resultStore

\* The changes of status the state machine of a Task allows.
StatusMoves ==
    {<<"new", "pending">>, <<"new", "completed">>, <<"pending", "completed">>,
     <<"completed", "completed">>, <<"pending", "pending">>}

\* C13: in every step a Task is created new or keeps or changes its status
\* along new -> pending, new -> completed, pending -> completed, completed ->
\* completed, pending -> pending; a pending Task is changed and left pending
\* only by a lease_task that found its lease expired.  No step goes from
\* completed to pending or new, or from pending to new.
C13_StatusTransitions ==
    [][/\ \A id \in DOMAIN taskStore' \ DOMAIN taskStore : taskStore'[id].Status = "new"
       /\ \A id \in DOMAIN taskStore :
            /\ id \in DOMAIN taskStore'
            /\ \/ taskStore'[id] = taskStore[id]
               \/ <<taskStore[id].Status, taskStore'[id].Status>> \in StatusMoves
            /\ taskStore'[id] # taskStore[id] /\ taskStore[id].Status = "pending"
                    /\ taskStore'[id].Status = "pending" =>
                \E p \in Procs :
                    /\ Returns(p, "lease_task")
                    /\ resp'[p].code = StatusOK
                    /\ resp'[p].task.ID = id
                    /\ loc'[p].currentTime - taskStore[id].Timestamp > Hour]_vars

\* A pending task was leased again after its lease expired, next to a task
\* that a result had completed.
C13_Witness ==
    \E p \in Procs :
        /\ Leases(p)
        /\ loc[p].task.Status = "pending"
        /\ taskStore[resp[p].task.ID].Status = "pending"
        /\ \E other \in DOMAIN taskStore : taskStore[other].Status = "completed"

\* C14: in every state the ids that have a Result are the ids of the Tasks
\* that are completed: no Result without its Task, no completed Task without
\* a Result.
C14_ResultIffCompleted ==
    /\ DOMAIN resultStore = {id \in DOMAIN taskStore : taskStore[id].Status = "completed"}
    /\ \A id \in DOMAIN resultStore : resultStore[id].ID = id

\* A result has completed a task that was never leased while another task is
\* pending without a Result.
C14_Witness ==
    \E p \in Procs :
        /\ Returned(p, "submit_result")
        /\ resp[p].code = StatusOK
        /\ loc[p].task.Status = "new"
        /\ \E other \in DOMAIN taskStore :
            taskStore[other].Status = "pending" /\ other \notin DOMAIN resultStore

\* C15: a submit_task whose topic is empty or whose input is absent is
\* answered 400 and returns no id, and every stored Task has a topic.
C15_MissingFieldRejected ==
    /\ \A p \in Procs :
        pc[p] = "done" /\ req[p].op = "submit_task"
                /\ (req[p].topic = "" \/ req[p].input = "nil") =>
            resp[p].code = StatusBadRequest /\ resp[p].id = ""
    /\ \A id \in DOMAIN taskStore : taskStore[id].Topic # ""

\* C16: whatever lease_task calls run next to it, a submit_result that has
\* returned success is not lost: in every later state the Result of the id is
\* stored with the output accepted last and the Task is completed, and no
\* lease_task returns that Task.
C16_SubmissionNotLost ==
    /\ \A id \in DOMAIN submitted :
        /\ id \in DOMAIN taskStore /\ taskStore[id].Status = "completed"
        /\ id \in DOMAIN resultStore /\ resultStore[id].Output = submitted[id]
    /\ \A p \in Procs :
        /\ Leases(p) => resp[p].task.ID \notin DOMAIN submitted
        /\ pc[p] = "update" => loc[p].id \notin DOMAIN submitted

\* A result was accepted for a task whose lease had expired while a
\* lease_task for the topic of the task was waiting for the mutex.
C16_Witness ==
    \E p, q \in Procs :
        /\ Returned(p, "submit_result")
        /\ resp[p].code = StatusOK
        /\ loc[p].task.Status = "pending"
        /\ now - loc[p].task.Timestamp > Hour
        /\ pc[q] = "lock"
        /\ req[q].topic = loc[p].task.Topic

\* C17: after submit_task(t, input) has returned the id I, on a store where
\* no other Task of topic t can be leased, lease_task(t) returns the Task I
\* with status pending; submit_result(I, output) then answers 200 and leaves
\* the Task completed; get_result(I) then answers 200 with that output.
C17_EndToEnd ==
    /\ Returned(E2EClient, "lease_task") =>
            /\ resp[E2EClient].code = StatusOK
            /\ resp[E2EClient].task.ID = E2EId
            /\ resp[E2EClient].task.Status = "pending"
    /\ Returned(E2EClient, "submit_result") =>
            /\ resp[E2EClient].code = StatusOK
            /\ taskStore[E2EId].Status = "completed"
    /\ Returned(E2EClient, "get_result") =>
            /\ resp[E2EClient].code = StatusOK
            /\ resp[E2EClient].result = [ID |-> E2EId, Output |-> submitted[E2EId]]

\* C18: no step removes a Task or changes the id, the topic or the input of
\* a stored Task; every Task is stored under its own id.
C18_TaskKeepsIdTopicInput ==
    [][/\ \A id \in DOMAIN taskStore :
            /\ id \in DOMAIN taskStore'
            /\ taskStore'[id].ID = taskStore[id].ID
            /\ taskStore'[id].Topic = taskStore[id].Topic
            /\ taskStore'[id].Input = taskStore[id].Input
       /\ \A id \in DOMAIN taskStore' : taskStore'[id].ID = id]_vars

\* A task with topic "b" and an input was leased and then completed by a
\* result, next to another task.
C18_Witness ==
    \E p \in Procs :
        /\ Returned(p, "submit_result")
        /\ resp[p].code = StatusOK
        /\ loc[p].task.Status = "pending"
        /\ taskStore[req[p].id].Topic = "b"
        /\ taskStore[req[p].id].Input = "x"
        /\ Cardinality(DOMAIN taskStore) > 1

\* C19: get_result, for a known, an unknown or an empty id, and observe leave
\* the Tasks and the Results as they are; observe reports the id and status of
\* every stored Task and the id of every stored Result, and nothing else.
C19_ReadOnly ==
    [][\A p \in Procs :
        /\ Returns(p, "get_result") \/ Returns(p, "observe") =>
                taskStore' = taskStore /\ resultStore' = resultStore
        /\ Returns(p, "observe") =>
                /\ resp'[p].code = StatusOK
                /\ resp'[p].lines =
                        {<<"Task", id, taskStore[id].Status>> : id \in DOMAIN taskStore}
                        \cup {<<"Result", id, id>> : id \in DOMAIN resultStore}]_vars

\* observe has reported a pending task, a completed task and a Result.
C19_Witness ==
    \E p \in Procs :
        /\ Returned(p, "observe")
        /\ \E id, other \in DOMAIN taskStore :
            /\ <<"Task", id, "pending">> \in resp[p].lines
            /\ <<"Task", other, "completed">> \in resp[p].lines
            /\ <<"Result", other, other>> \in resp[p].lines

\* C20: the id, status and timestamp of the body of submit_task have no
\* effect: whatever they are, the Task stored has an id that no stored Task
\* had, status new, a timestamp read from the clock of the server, and the
\* topic and input of the body; a Task whose id the body names stays as it is.
C20_ClientFieldsIgnored ==
    [][\A p \in Procs :
        Returns(p, "submit_task") =>
            LET id == resp'[p].id
            IN  /\ id \notin DOMAIN taskStore
                /\ id \in DOMAIN taskStore'
                /\ \E t \in 0..now :
                        taskStore'[id] = [ID |-> id, Topic |-> req'[p].topic,
                                          Input |-> req'[p].input, Status |-> "new",
                                          Timestamp |-> t]
                /\ req'[p].id \in DOMAIN taskStore =>
                        taskStore'[req'[p].id] = taskStore[req'[p].id]]_vars

\* A body that names the id of a pending task, with status completed and a
\* timestamp ahead of the clock, has been answered with a new task.
C20_Witness ==
    \E p \in Procs :
        /\ Returned(p, "submit_task")
        /\ resp[p].code = StatusCreated
        /\ req[p].id \in DOMAIN taskStore \ {resp[p].id}
        /\ taskStore[req[p].id].Status = "pending"
        /\ req[p].status = "completed"
        /\ req[p].timestamp > now
        /\ taskStore[resp[p].id].Status = "new"

\* C21: with k Tasks of topic T that can be leased, no submit_task and no
\* lease expiring, the first k of the lease_task(T) calls made one after the
\* other return Tasks of the topic that differ from one another, and the call
\* after them returns "none", whichever task each scan meets first.
C21_DistinctThenNone ==
    \A i \in 1..Len(polled.log) :
        /\ i <= polled.k =>
                /\ polled.log[i] \in DOMAIN taskStore
                /\ taskStore[polled.log[i]].Topic = polled.topic
                /\ \A j \in 1..(i - 1) : polled.log[j] # polled.log[i]
        /\ i = polled.k + 1 => polled.log[i] = ""

\* Every stored task could be leased; they were returned one an hour after
\* another and the call after the last one returned "none".
C21_Witness ==
    /\ polled.on
    /\ polled.k = MaxTasks
    /\ Len(polled.log) = polled.k + 1
    /\ polled.log[polled.k + 1] = ""
    /\ \E i \in 1..(polled.k - 1) :
        taskStore[polled.log[i]].Timestamp < taskStore[polled.log[i + 1]].Timestamp

\* C22: when lease_task is called again and again for a topic (one that
\* lease_task can be called with, so not the empty one) and every worker that
\* receives a Task submits a result for it, every Task of the topic is
\* completed and has a Result in the end.
C22_EveryTaskCompleted ==
    \A id \in UUIDs :
        (id \in DOMAIN taskStore /\ taskStore[id].Topic # "")
            ~> (/\ id \in DOMAIN taskStore
                /\ taskStore[id].Status = "completed"
                /\ id \in DOMAIN resultStore)

\* The last task that was not completed has got its result, after a lease that
\* had expired; every task with a topic is completed.
C22_Witness ==
    /\ Cardinality(DOMAIN taskStore) = MaxTasks
    /\ \A id \in DOMAIN taskStore :
        taskStore[id].Topic # "" /\ taskStore[id].Status = "completed"
    /\ \E p \in Procs :
        /\ Returned(p, "submit_result")
        /\ resp[p].code = StatusOK
        /\ loc[p].task.Status = "pending"
        /\ now - loc[p].task.Timestamp > Hour

====
